---- MODULE Spec2Model ----
(***************************************************************************)
(* TeamCity REST client (client.go): URL resolution, the retry policy, the *)
(* request/decode pipeline and the public operations built on them.        *)
(*                                                                         *)
(* Strings are sequences of symbols.  A host is a sequence of one-letter   *)
(* symbols; a path is a sequence whose symbols may be whole path literals. *)
(***************************************************************************)
EXTENDS Integers, Sequences, FiniteSets, TLC

VARIABLES
    host,       \* Client.host
    debug,      \* Client.debug
    path,       \* the path handed to addProtocol / doNotJSONRequest
    url,        \* authURL, the result of addProtocol
    pc,         \* position of the running call
    op,         \* the public operation being executed
    i,          \* withRetry's loop index
    calls,      \* number of HTTPClient.Do invocations of the running call
    err,        \* the err variable of the running call
    hist,       \* results of the successive invocations of f (withRetry alone)
    tgt,        \* the decode target shared by all attempts of one call
    last,       \* the response of the latest attempt
    persisted,  \* whether the latest attempt wrote the /tmp/mama-*.json file
    result      \* what the operation handed back to its caller

vars == <<host, debug, path, url, pc, op, i, calls, err, hist, tgt, last,
          persisted, result>>

----------------------------------------------------------------------------
(* Bounds *)

MaxHostLen == 5
MaxItems == 1
MaxID == 2

(* retries := 8 at every call site of withRetry *)
Retries == 8

Nil == "nil"

----------------------------------------------------------------------------
(* String helpers: the strings package as used by addProtocol *)

ToLowerCh(c) ==
    CASE c = "H" -> "h"
      [] c = "T" -> "t"
      [] c = "P" -> "p"
      [] OTHER   -> c

ToLower(s) == [k \in 1..Len(s) |-> ToLowerCh(s[k])]

HasSuffix(s, suf) ==
    /\ Len(s) >= Len(suf)
    /\ SubSeq(s, Len(s) - Len(suf) + 1, Len(s)) = suf

TrimSuffix(s, suf) ==
    IF HasSuffix(s, suf) THEN SubSeq(s, 1, Len(s) - Len(suf)) ELSE s

Contains(s, sub) ==
    \E k \in 0..(Len(s) - Len(sub)) : SubSeq(s, k + 1, k + Len(sub)) = sub

HttpsPrefix == <<"h", "t", "t", "p", "s", ":", "/", "/">>

(* The prefix test of addProtocol, ignoring letter case *)
addProtocol_CaseSensitive(h, p) ==
    LET stripped == IF HasSuffix(h, <<"/">>) THEN TrimSuffix(h, <<"/">>) ELSE h
        prefix   == IF Contains(stripped, <<"h", "t", "t", "p">>)
                    THEN <<>> ELSE HttpsPrefix
    IN  prefix \o stripped \o p

addProtocol(h, p) ==
    LET stripped == IF HasSuffix(h, <<"/">>) THEN TrimSuffix(h, <<"/">>) ELSE h
        prefix   == IF Contains(ToLower(stripped), <<"h", "t", "t", "p">>)
                    THEN <<>> ELSE HttpsPrefix
    IN  prefix \o stripped \o p

----------------------------------------------------------------------------
(* The retry policy *)

(* withRetry leaves its loop after the invocation at index idx returned e *)
withRetryExits_IgnoresSuccess(retries, idx, e) == idx + 1 >= retries

withRetryExits(retries, idx, e) == e = Nil \/ idx + 1 >= retries

----------------------------------------------------------------------------
(* Values shared by every specification *)

NoBody == [kind |-> "none",
           num  |-> [k |-> "absent", v |-> 0],
           list |-> [k |-> "absent", v |-> <<>>]]

NoTarget == [ptr |-> FALSE, num |-> 0, conv |-> 0,
             list |-> [isNil |-> TRUE, items |-> <<>>]]

NoResult == [kind |-> "none", err |-> Nil, present |-> FALSE, text |-> "",
             id |-> 0, builds |-> <<>>]

Dormant ==
    /\ debug = FALSE
    /\ op = "none"
    /\ calls = 0
    /\ tgt = NoTarget
    /\ last = NoBody
    /\ persisted = FALSE
    /\ result = NoResult

----------------------------------------------------------------------------
(* URL resolution on its own: every host up to MaxHostLen, two paths *)

HostAlphabet == {"h", "H", "t", "T", "p", "/", "a"}

HostStrings == UNION {[1..n -> HostAlphabet] : n \in 0..MaxHostLen}

UrlPaths == {<<"/", "x">>, <<"x">>}

InitURL ==
    /\ Dormant
    /\ host \in HostStrings
    /\ path \in UrlPaths
    /\ url = <<>>
    /\ pc = "new"
    /\ i = 0
    /\ err = Nil
    /\ hist = <<>>

Resolve ==
    /\ pc = "new"
    /\ url' = addProtocol(host, path)
    /\ pc' = "resolved"
    /\ UNCHANGED <<host, debug, path, op, i, calls, err, hist, tgt, last,
                   persisted, result>>

NextURL == Resolve

SpecURL == InitURL /\ [][NextURL]_vars

----------------------------------------------------------------------------
(* withRetry on its own: f returns nil or one of two errors at each call *)

FResults == {Nil, "e1", "e2"}

InitRetry ==
    /\ Dormant
    /\ host = <<>>
    /\ path = <<>>
    /\ url = <<>>
    /\ pc = "loop"
    /\ i = 0
    /\ err = Nil
    /\ hist = <<>>

RetryIter ==
    /\ pc = "loop"
    /\ i < Retries
    /\ \E e \in FResults :
        /\ hist' = Append(hist, e)
        /\ err' = e
        /\ IF withRetryExits(Retries, i, e)
           THEN /\ pc' = "returned"
                /\ i' = i
           ELSE /\ pc' = "loop"
                /\ i' = i + 1
    /\ UNCHANGED <<host, debug, path, url, op, calls, tgt, last, persisted,
                   result>>

NextRetry == RetryIter

SpecRetry == InitRetry /\ [][NextRetry]_vars

----------------------------------------------------------------------------
(* The public operations *)

Ops == {"QueueBuild", "SearchBuild", "GetQueuedBuilds", "GetBuild",
        "GetBuildID", "GetBuildProperties", "GetChanges", "GetProblems",
        "GetTests", "CancelBuild", "GetBuildLog"}

(* The operations whose doRequest call is wrapped in withRetry *)
RetryOps == {"QueueBuild", "SearchBuild", "GetQueuedBuilds", "GetBuild",
             "GetBuildID", "GetBuildProperties"}

(* The operations that decode into a pointer variable (&build, build a pointer) *)
PtrOps == {"QueueBuild", "GetBuild", "GetBuildID"}

(* The operations whose target has an integer field (Count, or Build.ID) *)
NumOps == {"QueueBuild", "GetBuild", "SearchBuild", "GetQueuedBuilds",
           "GetBuildID", "GetProblems", "GetTests"}

(* The operations whose target has the envelope's list field *)
ListOps == {"SearchBuild", "GetQueuedBuilds", "GetBuildID",
            "GetBuildProperties", "GetChanges", "GetProblems", "GetTests"}

(* The operations that hand doRequest a target to decode into *)
DecodeOps == Ops \ {"CancelBuild", "GetBuildLog"}

(* The path each operation requests; "<path>" is the caller's locator path *)
PathOf(o) ==
    CASE o = "QueueBuild"         -> <<"/httpAuth/app/rest/buildQueue">>
      [] o = "SearchBuild"        -> <<"/httpAuth/app/rest/builds/?locator=">>
      [] o = "GetQueuedBuilds"    -> <<"/httpAuth/app/rest/buildQueue?locator=">>
      [] o = "GetBuild"           -> <<"/httpAuth/app/rest/builds/id:">>
      [] o = "GetBuildID"         -> <<"/httpAuth/app/rest/buildTypes/id:">>
      [] o = "GetBuildProperties" -> <<"/httpAuth/app/rest/builds/id:",
                                       "/resulting-properties">>
      [] o = "GetChanges"         -> <<"<path>", ",count:99999">>
      [] o = "GetProblems"        -> <<"<path>", ",count:",
                                       "&fields=*,problemOccurrence(*,details)">>
      [] o = "GetTests"           -> <<"<path>", ",count:">>
      [] o = "CancelBuild"        -> <<"/httpAuth/app/rest/id:">>
      [] OTHER                    -> <<"/httpAuth/downloadBuildLog.html?buildId=">>

(* The decode target as the operation declares it before its first attempt *)
InitialTarget(o) ==
    [NoTarget EXCEPT !.ptr = (o \in DecodeOps /\ o \notin {"GetBuild", "GetBuildID"})]

----------------------------------------------------------------------------
(* Server responses *)

IDs == 1..MaxID

ItemLists == UNION {[1..n -> IDs] : n \in 0..MaxItems}

NumFields == {[k |-> x, v |-> 0] : x \in {"absent", "null", "bad"}}
             \cup {[k |-> "val", v |-> n] : n \in IDs}

ListFields == {[k |-> x, v |-> <<>>] : x \in {"absent", "null", "bad"}}
              \cup {[k |-> "val", v |-> l] : l \in ItemLists}

(* transport: HTTPClient.Do fails; read: ReadAll fails; syntax: the body is
   not JSON; null: the body is the JSON null; obj: a JSON object whose two
   keys are each absent, null, of a type the field cannot hold, or a value *)
Responses ==
    {[NoBody EXCEPT !.kind = x] : x \in {"transport", "read", "syntax", "null"}}
    \cup {[kind |-> "obj", num |-> n, list |-> l] :
            n \in NumFields, l \in ListFields}

Fresh(id) == [id |-> id, conv |-> 0]

(* json.Unmarshal(jsonCnt, &v): the new target and whether it returned nil.
   Invalid JSON is rejected before anything is written.  A null body sets a
   pointer variable to nil and leaves a struct alone.  An object is decoded
   into the value already there (a nil pointer is allocated first): a key
   that is absent leaves its field alone, null empties a slice and leaves an
   integer alone, a value of the wrong type is skipped and reported as an
   error once the rest of the object has been stored. *)
Unmarshal(o, t, r) ==
    LET base == IF o \in PtrOps /\ ~t.ptr
                THEN [NoTarget EXCEPT !.ptr = TRUE] ELSE t
    IN
    CASE r.kind = "syntax" -> [t |-> t, ok |-> FALSE]
      [] r.kind = "null" ->
            [t |-> IF o \in PtrOps THEN [NoTarget EXCEPT !.ptr = FALSE] ELSE t,
             ok |-> TRUE]
      [] OTHER ->
            [t |-> [base EXCEPT
                      !.num  = IF o \in NumOps /\ r.num.k = "val"
                               THEN r.num.v ELSE @,
                      !.list = IF o \in ListOps /\ r.list.k = "val"
                               THEN [isNil |-> FALSE,
                                     items |-> [k \in 1..Len(r.list.v) |->
                                                  Fresh(r.list.v[k])]]
                               ELSE IF o \in ListOps /\ r.list.k = "null"
                               THEN [isNil |-> TRUE, items |-> <<>>]
                               ELSE @],
             ok |-> ~(o \in NumOps /\ r.num.k = "bad")
                    /\ ~(o \in ListOps /\ r.list.k = "bad")]

(* http.NewRequest parses the URL; url.Parse rejects a space in the host *)
NewRequestOK(u) == \A k \in 1..Len(u) : u[k] # " "

(* One call of doNotJSONRequest with response r: whether it panicked, whether
   the transport was invoked, and the error it returned *)
doNotJSONRequest(u, r) ==
    IF ~NewRequestOK(u)
    THEN [panic |-> TRUE, sent |-> FALSE, err |-> Nil]
    ELSE [panic |-> FALSE, sent |-> TRUE,
          err |-> CASE r.kind = "transport" -> "transport"
                    [] r.kind = "read"      -> "read"
                    [] OTHER                -> Nil]

(* One call of doRequest: after a successful doNotJSONRequest the body is
   written to the /tmp file, then decoded when a target was given *)
doRequest(o, u, t, r) ==
    LET raw == doNotJSONRequest(u, r)
        dec == Unmarshal(o, t, r)
    IN
    IF raw.panic \/ raw.err # Nil
    THEN [panic |-> raw.panic, sent |-> raw.sent, err |-> raw.err,
          wrote |-> FALSE, t |-> t]
    ELSE IF o \in DecodeOps
    THEN [panic |-> FALSE, sent |-> TRUE,
          err |-> IF dec.ok THEN Nil ELSE "decode",
          wrote |-> TRUE, t |-> dec.t]
    ELSE [panic |-> FALSE, sent |-> TRUE, err |-> Nil, wrote |-> TRUE, t |-> t]

(* The unit of work of each operation: doRequest, or for GetBuildLog the bare
   doNotJSONRequest *)
unitOfWork(o, u, t, r) ==
    IF o = "GetBuildLog"
    THEN LET raw == doNotJSONRequest(u, r)
         IN  [panic |-> raw.panic, sent |-> raw.sent, err |-> raw.err,
              wrote |-> FALSE, t |-> t]
    ELSE doRequest(o, u, t, r)

----------------------------------------------------------------------------
(* What each operation does with err and the decode target after its request *)

Ret(e, present, text, id, builds) ==
    [kind |-> "ret", err |-> e, present |-> present, text |-> text,
     id |-> id, builds |-> builds]

Panic == [NoResult EXCEPT !.kind = "panic"]

Failed(e) == Ret(e, FALSE, "", 0, <<>>)

(* Build.convertInputs: the conversion pass, counted on the record *)
convertInputs(b) == [b EXCEPT !.conv = @ + 1]

ConvertAll(items) == [k \in 1..Len(items) |-> convertInputs(items[k])]

(* build.convertInputs() with build == nil after a null body: either outcome
   of calling the method on a nil receiver *)
QueueBuildReturn(e, t) ==
    IF e # Nil THEN {Failed(e)}
    ELSE IF ~t.ptr THEN {Panic, Ret(Nil, FALSE, "", 0, <<>>)}
    ELSE {Ret(Nil, TRUE, "", 0,
              <<convertInputs([id |-> t.num, conv |-> t.conv])>>)}

SearchBuildReturn(e, t) ==
    IF e # Nil THEN {Failed(e)}
    ELSE {Ret(Nil, ~t.list.isNil, "", 0, ConvertAll(t.list.items))}

GetQueuedBuildsReturn(e, t) ==
    IF e # Nil THEN {Failed(e)}
    ELSE {Ret(Nil, ~t.list.isNil, "", 0, ConvertAll(t.list.items))}

GetBuildReturn(e, t) ==
    IF e # Nil THEN {Failed(e)}
    ELSE IF ~t.ptr THEN {Failed("build not found")}
    ELSE {Ret(Nil, TRUE, "", 0, <<[id |-> t.num, conv |-> t.conv]>>)}

GetBuildIDReturn(e, t) ==
    IF e # Nil THEN {Ret(e, FALSE, "ID not found", 0, <<>>)}
    ELSE IF ~t.ptr THEN {Ret("build not found", FALSE, "ID not found", 0, <<>>)}
    ELSE IF Len(t.list.items) = 0 THEN {Panic}
    ELSE {Ret(Nil, TRUE, "%d", t.list.items[1].id, <<>>)}

GetBuildPropertiesReturn(e, t) ==
    IF e # Nil THEN {Failed(e)}
    ELSE {Ret(Nil, TRUE, "", 0, t.list.items)}

GetChangesReturn_NoNilCheck(e, t) ==
    IF e # Nil THEN {Failed(e)}
    ELSE {Ret(Nil, ~t.list.isNil, "", 0, t.list.items)}

GetChangesReturn(e, t) ==
    IF e # Nil THEN {Failed(e)}
    ELSE IF t.list.isNil THEN {Failed("changes not found")}
    ELSE {Ret(Nil, TRUE, "", 0, t.list.items)}

GetProblemsReturn(e, t) ==
    IF e # Nil THEN {Failed(e)}
    ELSE IF t.list.isNil THEN {Failed("problemOccurrence list not found")}
    ELSE {Ret(Nil, TRUE, "", 0, t.list.items)}

GetTestsReturn(e, t) ==
    IF e # Nil THEN {Failed(e)}
    ELSE {Ret(Nil, ~t.list.isNil, "", 0, t.list.items)}

CancelBuildReturn(e, t) == {Ret(e, FALSE, "", 0, <<>>)}

GetBuildLogReturn(e, t) == {Ret(e, TRUE, "log", 0, <<>>)}

OpReturn(o, e, t) ==
    CASE o = "QueueBuild"         -> QueueBuildReturn(e, t)
      [] o = "SearchBuild"        -> SearchBuildReturn(e, t)
      [] o = "GetQueuedBuilds"    -> GetQueuedBuildsReturn(e, t)
      [] o = "GetBuild"           -> GetBuildReturn(e, t)
      [] o = "GetBuildID"         -> GetBuildIDReturn(e, t)
      [] o = "GetBuildProperties" -> GetBuildPropertiesReturn(e, t)
      [] o = "GetChanges"         -> GetChangesReturn(e, t)
      [] o = "GetProblems"        -> GetProblemsReturn(e, t)
      [] o = "GetTests"           -> GetTestsReturn(e, t)
      [] o = "CancelBuild"        -> CancelBuildReturn(e, t)
      [] OTHER                    -> GetBuildLogReturn(e, t)

----------------------------------------------------------------------------
(* The client: New, SetDebug, and one public operation at a time *)

(* Hosts given to New: one that resolves to a URL http.NewRequest accepts and
   one it rejects *)
ClientHosts == {<<"a", "/">>, <<"a", " ">>}

Init ==
    /\ Dormant
    /\ host \in ClientHosts
    /\ path = <<>>
    /\ url = <<>>
    /\ pc = "idle"
    /\ i = 0
    /\ err = Nil
    /\ hist = <<>>

SetDebug(b) ==
    /\ pc = "idle"
    /\ debug' = b
    /\ UNCHANGED <<host, path, url, pc, op, i, calls, err, hist, tgt, last,
                   persisted, result>>

(* Entry of a public operation, up to its first request *)
Call(o) ==
    /\ pc = "idle"
    /\ op' = o
    /\ path' = PathOf(o)
    /\ tgt' = InitialTarget(o)
    /\ pc' = "run"
    /\ UNCHANGED <<host, debug, url, i, calls, err, hist, last, persisted,
                   result>>

(* One invocation of the operation's unit of work, and for the wrapped
   operations withRetry's decision to loop or leave *)
Attempt ==
    /\ pc = "run"
    /\ \E r \in Responses :
        LET u     == addProtocol(host, path)
            out   == unitOfWork(op, u, tgt, r)
            exits == IF op \in RetryOps
                     THEN withRetryExits(Retries, i, out.err) ELSE TRUE
        IN  /\ url' = u
            /\ last' = IF out.sent THEN r ELSE last
            /\ calls' = IF out.sent THEN calls + 1 ELSE calls
            /\ persisted' = out.wrote
            /\ tgt' = out.t
            /\ err' = out.err
            /\ IF out.panic
               THEN pc' = "done" /\ result' = Panic /\ i' = i
               ELSE /\ result' = result
                    /\ IF exits THEN pc' = "post" /\ i' = i
                                ELSE pc' = "run" /\ i' = i + 1
    /\ UNCHANGED <<host, debug, path, op, hist>>

(* The rest of the operation, from the error check to its return *)
Return ==
    /\ pc = "post"
    /\ result' \in OpReturn(op, err, tgt)
    /\ pc' = "done"
    /\ UNCHANGED <<host, debug, path, url, op, i, calls, err, hist, tgt, last,
                   persisted>>

(* The caller goes on; the operation's locals are gone *)
Finish ==
    /\ pc = "done"
    /\ pc' = "idle"
    /\ op' = "none"
    /\ path' = <<>>
    /\ url' = <<>>
    /\ i' = 0
    /\ calls' = 0
    /\ err' = Nil
    /\ tgt' = NoTarget
    /\ last' = NoBody
    /\ persisted' = FALSE
    /\ result' = NoResult
    /\ UNCHANGED <<host, debug, hist>>

Next ==
    \/ \E b \in BOOLEAN : SetDebug(b)
    \/ \E o \in Ops : Call(o)
    \/ Attempt
    \/ Return
    \/ Finish

Spec == Init /\ [][Next]_vars

----------------------------------------------------------------------------
(* Properties *)

AttemptErrors == {"transport", "read", "decode"}

Decoded(l) == [k \in 1..Len(l) |-> Fresh(l[k])]

(* The latest response was received and decoded without error *)
WellFormed == pc = "done" /\ calls >= 1 /\ err = Nil

(* C1: withRetry(8, f) stops at the first nil result of f and returns nil
   after exactly that many invocations; f is never invoked after a success;
   when f fails every time it is invoked exactly 8 times and the error of
   the 8th invocation is returned. *)
C1_RetryContract ==
    /\ Len(hist) <= Retries
    /\ \A k \in 1..(Len(hist) - 1) : hist[k] # Nil
    /\ pc = "loop" =>
          /\ Len(hist) < Retries
          /\ \A k \in 1..Len(hist) : hist[k] # Nil
    /\ pc = "returned" =>
          /\ Len(hist) >= 1
          /\ err = hist[Len(hist)]
          /\ err # Nil => Len(hist) = Retries

(* f failed 8 times with differing errors and the 8th was returned *)
C1_Witness ==
    /\ pc = "returned"
    /\ Len(hist) = Retries
    /\ err # Nil
    /\ hist[1] # err

(* C2: every public operation retries its request: when the attempts fail
   with a transport or decode error the transport has been invoked exactly 8
   times before the error is returned, and once a later attempt succeeds no
   attempt error is returned. *)
C2_EveryOperationRetries ==
    pc = "done" /\ result.kind = "ret" =>
        /\ err \in {"transport", "decode"} => calls = Retries
        /\ err = Nil => result.err \notin AttemptErrors

(* C3: GetBuildID on a well-formed response that matches no build (null
   body, or build list absent, null or empty) returns "ID not found" with a
   non-nil error and does not panic; a nil error comes only with the ID of
   the first build of the response. *)
C3_GetBuildIDNotFound ==
    WellFormed /\ op = "GetBuildID" =>
        /\ result.kind # "panic"
        /\ (last.kind = "null" \/ last.list.k # "val" \/ last.list.v = <<>>) =>
              result.text = "ID not found" /\ result.err # Nil
        /\ result.err = Nil =>
              /\ last.kind = "obj"
              /\ last.list.k = "val"
              /\ last.list.v # <<>>
              /\ result.id = last.list.v[1]

(* C4: a response body is written to the temporary-directory file only when
   the debug flag is on and only when the response decoded successfully. *)
C4_PersistOnlyInDebug == persisted => debug /\ err = Nil

(* C5: every Build returned by QueueBuild, SearchBuild, GetQueuedBuilds or
   GetBuild has had convertInputs applied exactly once, and no conversion
   happens while attempts are still being made. *)
C5_ConvertedExactlyOnce ==
    /\ pc \in {"run", "post"} =>
          /\ tgt.conv = 0
          /\ \A k \in 1..Len(tgt.list.items) : tgt.list.items[k].conv = 0
    /\ (/\ pc = "done"
        /\ op \in {"QueueBuild", "SearchBuild", "GetQueuedBuilds", "GetBuild"}
        /\ result.kind = "ret"
        /\ result.err = Nil) =>
          \A k \in 1..Len(result.builds) : result.builds[k].conv = 1

(* C6 as stated: on a well-formed response GetChanges and GetProblems return
   their not-found error and GetTests an empty list with a nil error when
   the envelope key is missing, and each returns the decoded list with a nil
   error when the key is present. *)
C6_AbsencePolicyByKey ==
    WellFormed /\ op \in {"GetChanges", "GetProblems", "GetTests"}
               /\ last.kind = "obj" =>
        /\ last.list.k = "absent" =>
              CASE op = "GetChanges" -> result.err = "changes not found"
                [] op = "GetProblems" -> result.err # Nil
                [] OTHER -> result.err = Nil /\ result.builds = <<>>
        /\ last.list.k \in {"null", "val"} =>
              result.err = Nil /\ result.builds = Decoded(last.list.v)

(* C6 amended: on a well-formed response whose envelope key is missing or
   null (or whose body is null) GetChanges returns "changes not found",
   GetProblems returns an error and GetTests returns an empty list with a
   nil error; when the key holds a JSON array each returns the decoded list
   with a nil error. *)
C6_AbsencePolicy ==
    WellFormed /\ op \in {"GetChanges", "GetProblems", "GetTests"} =>
        /\ result.kind = "ret"
        /\ (last.kind = "null" \/ last.list.k \in {"absent", "null"}) =>
              CASE op = "GetChanges" -> result.err = "changes not found"
                [] op = "GetProblems" ->
                      result.err = "problemOccurrence list not found"
                [] OTHER -> result.err = Nil /\ result.builds = <<>>
        /\ (last.kind = "obj" /\ last.list.k = "val") =>
              result.err = Nil /\ result.builds = Decoded(last.list.v)

(* GetChanges received "change": null and answered "changes not found" *)
C6_Witness ==
    /\ WellFormed
    /\ op = "GetChanges"
    /\ last.kind = "obj"
    /\ last.list.k = "null"
    /\ result.err = "changes not found"

(* C7: SearchBuild on a response whose build field is null or absent
   returns an empty list and a nil error; GetBuild on a null body returns a
   nil build and "build not found"; GetBuild never returns a nil build with
   a nil error. *)
C7_SearchEmptyGetNotFound ==
    /\ (WellFormed /\ op = "SearchBuild" /\ last.kind = "obj"
                   /\ last.list.k \in {"absent", "null"}) =>
          result.err = Nil /\ result.builds = <<>>
    /\ (WellFormed /\ op = "GetBuild" /\ last.kind = "null") =>
          ~result.present /\ result.err = "build not found"
    /\ (pc = "done" /\ op = "GetBuild" /\ result.kind = "ret") =>
          ~(~result.present /\ result.err = Nil)

(* C8: addProtocol yields "https://" + host without its trailing slash +
   path when the host holds no "http" in any letter case, and the host
   without its trailing slash + path otherwise. *)
C8_UrlResolution ==
    pc = "resolved" =>
        LET n        == Len(host)
            stripped == IF n > 0 /\ host[n] = "/"
                        THEN SubSeq(host, 1, n - 1) ELSE host
            hasHttp  == \E k \in 1..(n - 3) :
                            /\ host[k] \in {"h", "H"}
                            /\ host[k + 1] \in {"t", "T"}
                            /\ host[k + 2] \in {"t", "T"}
                            /\ host[k + 3] \in {"p", "P"}
        IN  url = (IF hasHttp THEN <<>> ELSE HttpsPrefix) \o stripped \o path

(* A host spelling "Http" in mixed case with a trailing slash was resolved *)
C8_Witness ==
    /\ pc = "resolved"
    /\ host = <<"H", "t", "t", "p", "/">>
    /\ url = <<"H", "t", "t", "p">> \o path

(* C9: whenever a step of the latest attempt failed (request construction,
   transport, body read, decode) and no later attempt succeeded, the
   operation returns a non-nil error and does not panic. *)
C9_NoFailureSwallowed ==
    pc = "done" /\ (err # Nil \/ ~NewRequestOK(url)) =>
        result.kind = "ret" /\ result.err # Nil

(* C10: the value a retry-wrapped operation returns (outcome, error, ID and
   records) is what its final, successful response alone decodes to: nothing
   stored by an earlier, failed attempt shows in it. *)
C10_ResultFromFinalResponse ==
    WellFormed /\ op \in RetryOps =>
        \E x \in OpReturn(op, Nil, Unmarshal(op, InitialTarget(op), last).t) :
            /\ x.kind = result.kind
            /\ x.err = result.err
            /\ x.text = result.text
            /\ x.id = result.id
            /\ x.builds = result.builds

====
